---------------------------- MODULE Spec2Model ----------------------------
(***************************************************************************)
(* A model of tex2svg.py: the comment/verbatim sanitizer, the equation     *)
(* locator, the numbering reconciler and the per-equation emit/compile     *)
(* loop.                                                                   *)
(*                                                                         *)
(* Texts are sequences of tokens.  A token is one character ("a", " ",     *)
(* "%", a backslash, a line terminator ...) or one command that the        *)
(* regular expressions of the program match as a unit (\begin{equation},   *)
(* \label{a}, ...).  Offsets into a text count tokens and are 0-based, as  *)
(* Python's are; a Python slice text[s:e] is Slice(text, s, e).            *)
(* An optional value (Python's None or a value) is <<>> or <<value>>.      *)
(***************************************************************************)
EXTENDS Integers, Sequences, FiniteSets, TLC

VARIABLES
    pc,         \* where the run stands
    text,       \* the text handed to the function under study
    parts,      \* sanitizer: the pieces it appended to its output list
    sanitized,  \* sanitizer: the joined output of the first pass
    again,      \* sanitizer: the output of a pass over `sanitized`
    eqs,        \* locator: the records find_equations returned
    doc,        \* the document as written: chapter commands and environments
    tempSrc,    \* the synthetic numbering document
    auxFile,    \* temp_for_labels.aux in the debug directory, kept across runs
    engine,     \* what the LaTeX engine did in this run's numbering compile
    labelMap,   \* what compile_temp_and_parse_aux returned
    displayNames, \* what map_equations_to_display_names returned
    names,      \* display_names after the pre-chapter post-processing
    raised,     \* the function an exception has propagated out of, or "none"
    files,      \* the .tex files on disk: path |-> lines
    batch,      \* the candidate root files of this run
    included,   \* what find_included_files returned
    roots,      \* the candidates the run processes as roots
    combined,   \* the flattened text of one root and the visited set
    preamble,   \* the lines before \begin{document}
    needed,     \* the macro names the equations use
    relevant,   \* what collect_definitions returned
    idx,        \* the position of main's emit loop
    emitted,    \* the standalone sources written in this run
    pdfs,       \* the .pdf files in the output directory, kept across runs
    svgs,       \* the .svg files in the output directory, kept across runs
    calls,      \* the stems the LaTeX engine was started for in this run
    results,    \* what the calls of compile_equation returned in this run
    handed,     \* the .pdf files this run passed to the PDF-to-SVG step
    arg,        \* the arguments of a function studied alone
    result,     \* what that function returned
    timer,      \* compile_equation: where the watchdog's timer thread stands
    process,    \* compile_equation: its local variable `process`
    child,      \* compile_equation: the LaTeX process it started
    timed_out   \* compile_equation: its local variable `timed_out`

sanVars == <<parts, sanitized, again>>
numVars == <<doc, tempSrc, auxFile, engine, labelMap, displayNames, names, raised>>
fileVars == <<files, batch, included, roots, combined>>
defVars == <<preamble, needed, relevant>>
watchVars == <<timer, process, child, timed_out>>
runVars == <<idx, emitted, pdfs, svgs, calls, results, handed, watchVars>>
pureVars == <<arg, result>>
emitVars == <<defVars, runVars, pureVars>>
vars == <<pc, text, sanVars, eqs, numVars, fileVars, emitVars>>

(***************************************************************************)
(* Bounds of the model.                                                    *)
(***************************************************************************)
MaxSanLen == 5
MaxIdemLen == 6
MaxLocLen == 5
MaxOrderLen == 6
MaxBodyLen == 4
MaxItems == 2
MaxFileLen == 2
MaxPreLines == 2
MaxNameLen == 3
MaxEmitItems == 2
MaxChapItems == 4

(***************************************************************************)
(* Tokens.                                                                 *)
(***************************************************************************)
BS == "\\"
PCT == "%"
SP == " "
NL == "\n"
FF == "\f"
LETTER == "a"

VERBATIM_ENVS == {"verbatim", "lstlisting", "minted", "Verbatim"}

BeginTok(e) == "\\begin{" \o e \o "}"
EndTok(e) == "\\end{" \o e \o "}"

\* the environments find_equations recognizes, as base name and star
NumberBases == {"equation", "align", "multline", "gather"}
EnvBases == NumberBases \cup {"displaymath"}
EQ_ENVS == EnvBases \cup {b \o "*" : b \in NumberBases}

OPEN_BRACKET == "\\["
CLOSE_BRACKET == "\\]"
CHAPTER == "\\chapter{T}"
DOT == "."

\* the label names and tag texts of the model; a tag text is a text of its own
LabelNames == {"a", "__ext_eq2"}
TagTexts == {<<"T">>, <<"0", ".", "5">>}

RECURSIVE Glue(_)
Glue(cs) == IF cs = <<>> THEN "" ELSE Head(cs) \o Glue(Tail(cs))

LabelTok(n) == "\\label{" \o n \o "}"
TagTok(tt) == "\\tag{" \o Glue(tt) \o "}"

None == <<>>
Some(v) == <<v>>

(***************************************************************************)
(* Python helpers.                                                         *)
(***************************************************************************)
\* text[s:e] for 0 <= s <= e <= len(text)
Slice(s, from, to) == SubSeq(s, from + 1, to)

\* str.isspace for one character: blank, line feed and form feed are white
IsSpace(c) == c \in {SP, NL, FF}

\* the boundaries str.splitlines breaks a text at
IsLineEnd(c) == c \in {NL, FF}

RECURSIVE RStrip(_)
RStrip(s) ==
    IF s # <<>> /\ IsSpace(s[Len(s)]) THEN RStrip(SubSeq(s, 1, Len(s) - 1)) ELSE s

RECURSIVE LStrip(_)
LStrip(s) ==
    IF s # <<>> /\ IsSpace(s[1]) THEN LStrip(Tail(s)) ELSE s

Strip(s) == LStrip(RStrip(s))

\* str.splitlines(keepends=True)
RECURSIVE SplitLinesKeep(_)
SplitLinesKeep(s) ==
    IF s = <<>> THEN <<>>
    ELSE LET ends == {k \in 1..Len(s) : IsLineEnd(s[k])}
         IN  IF ends = {} THEN <<s>>
             ELSE LET k == CHOOSE x \in ends : \A y \in ends : x <= y
                  IN  <<SubSeq(s, 1, k)>> \o SplitLinesKeep(SubSeq(s, k + 1, Len(s)))

RECURSIVE Join(_)
Join(ss) == IF ss = <<>> THEN <<>> ELSE Head(ss) \o Join(Tail(ss))

\* no include graph is looked at
NoFiles ==
    /\ files = <<>>
    /\ batch = {}
    /\ included = {}
    /\ roots = {}
    /\ combined = <<>>

\* nothing is emitted
NoDefs ==
    /\ preamble = <<>>
    /\ needed = {}
    /\ relevant = <<>>

\* compile_equation is not entered: no timer, no process
NoWatch ==
    /\ timer = "unset"
    /\ process = None
    /\ child = [state |-> "none", hangs |-> FALSE, rc |-> 0, writes |-> FALSE]
    /\ timed_out = FALSE

NoRun ==
    /\ idx = 0
    /\ emitted = <<>>
    /\ pdfs = {}
    /\ svgs = {}
    /\ calls = <<>>
    /\ results = <<>>
    /\ handed = {}
    /\ NoWatch

NoCall ==
    /\ arg = <<>>
    /\ result = <<>>

NoEmit == NoDefs /\ NoRun /\ NoCall

\* the pipeline's variables in a run of one function alone
NoPipeline ==
    /\ NoFiles
    /\ NoEmit
    /\ doc = <<>>
    /\ tempSrc = <<>>
    /\ auxFile = None
    /\ engine = <<>>
    /\ labelMap = None
    /\ displayNames = <<>>
    /\ names = <<>>
    /\ raised = "none"

\* all texts over an alphabet of at most n tokens
TextsUpTo(alphabet, n) == UNION {[1..k -> alphabet] : k \in 0..n}

(***************************************************************************)
(* _strip_comments_by_line                                                 *)
(***************************************************************************)
\* line.find('%', i): the first position p >= i holding a %, 0 when none
\* (positions are 1-based here, so 0 stands for Python's -1)
FindPercent(line, i) ==
    LET hits == {p \in i..Len(line) : line[p] = PCT}
    IN  IF hits = {} THEN 0 ELSE CHOOSE p \in hits : \A q \in hits : p <= q

\* the inner while loop: consecutive backslashes ending at position j
RECURSIVE CountBackslashes(_, _)
CountBackslashes(line, j) ==
    IF j >= 1 /\ line[j] = BS THEN 1 + CountBackslashes(line, j - 1) ELSE 0

\* a variant that looks at one character only, as COMMENT_RE does
IsUnescapedOneBack(line, p) == p = 1 \/ line[p - 1] # BS

\* bs % 2 == 0: the % at p is unescaped
IsUnescaped(line, p) == CountBackslashes(line, p - 1) % 2 = 0

\* the branch taken at an unescaped % at position p
CutComment(line, p) ==
    LET prefix == SubSeq(line, 1, p - 1)
    IN  IF Strip(prefix) = <<>> THEN <<>>
        ELSE RStrip(prefix) \o (IF line[Len(line)] = NL THEN <<NL>> ELSE <<>>)

\* the while True loop over one line, searching from position i
RECURSIVE StripLineFrom(_, _)
StripLineFrom(line, i) ==
    LET p == FindPercent(line, i)
    IN  IF p = 0 THEN line
        ELSE IF IsUnescaped(line, p) THEN CutComment(line, p)
        ELSE StripLineFrom(line, p + 1)

StripLine(line) == StripLineFrom(line, 1)

\* out_lines, one entry per line of the chunk, with the line it came from
LineParts(chunk) ==
    LET lines == SplitLinesKeep(chunk)
    IN  [k \in 1..Len(lines) |->
            [verb |-> FALSE, src |-> lines[k], out |-> StripLine(lines[k])]]

RECURSIVE JoinOut(_)
JoinOut(ps) == IF ps = <<>> THEN <<>> ELSE Head(ps).out \o JoinOut(Tail(ps))

StripCommentsByLine(chunk) == JoinOut(LineParts(chunk))

(***************************************************************************)
(* strip_comments_preserve_verbatim                                        *)
(***************************************************************************)
\* verbpat matched at position i: \begin{e} there and the first \end{e} of
\* the same e after it; <<i, j>> with j the position of that \end{e}, or <<>>
VerbatimAt(t, i) ==
    LET es == {e \in VERBATIM_ENVS : t[i] = BeginTok(e)}
    IN  IF es = {} THEN <<>>
        ELSE LET e == CHOOSE x \in es : TRUE
                 closes == {j \in (i + 1)..Len(t) : t[j] = EndTok(e)}
             IN  IF closes = {} THEN <<>>
                 ELSE <<i, CHOOSE j \in closes : \A k \in closes : j <= k>>

\* verbpat.finditer: the first match starting at or after position from
NextVerbatim(t, from) ==
    LET starts == {i \in from..Len(t) : VerbatimAt(t, i) # <<>>}
    IN  IF starts = {} THEN <<>>
        ELSE VerbatimAt(t, CHOOSE i \in starts : \A k \in starts : i <= k)

\* the loop over the matches: what is appended to `out` from position pos on
RECURSIVE SanitizeParts(_, _)
SanitizeParts(t, pos) ==
    LET m == NextVerbatim(t, pos)
    IN  IF m = <<>> THEN LineParts(SubSeq(t, pos, Len(t)))
        ELSE LineParts(SubSeq(t, pos, m[1] - 1))
             \o <<[verb |-> TRUE, src |-> SubSeq(t, m[1], m[2]),
                   out |-> SubSeq(t, m[1], m[2])]>>
             \o SanitizeParts(t, m[2] + 1)

StripCommentsPreserveVerbatim(t) == JoinOut(SanitizeParts(t, 1))

(***************************************************************************)
(* The sanitizer run twice over an arbitrary text.                         *)
(***************************************************************************)
SanAlphabet == {LETTER, SP, PCT, BS, NL, FF, BeginTok("verbatim"), EndTok("verbatim")}
IdemAlphabet == {LETTER, SP, PCT, BS, NL, FF}

InitSanitize ==
    /\ pc = "raw"
    /\ text \in TextsUpTo(SanAlphabet, MaxSanLen)
    /\ parts = <<>>
    /\ sanitized = <<>>
    /\ again = <<>>
    /\ eqs = <<>>
    /\ NoPipeline

InitIdem ==
    /\ pc = "raw"
    /\ text \in TextsUpTo(IdemAlphabet, MaxIdemLen)
    /\ parts = <<>>
    /\ sanitized = <<>>
    /\ again = <<>>
    /\ eqs = <<>>
    /\ NoPipeline

\* tex_source_clean = strip_comments_preserve_verbatim(tex_source)
Sanitize ==
    /\ pc = "raw"
    /\ parts' = SanitizeParts(text, 1)
    /\ sanitized' = StripCommentsPreserveVerbatim(text)
    /\ pc' = "clean"
    /\ UNCHANGED <<text, again, eqs, numVars, fileVars, emitVars>>

\* the sanitizer applied to its own output
SanitizeAgain ==
    /\ pc = "clean"
    /\ again' = StripCommentsPreserveVerbatim(sanitized)
    /\ pc' = "clean2"
    /\ UNCHANGED <<text, parts, sanitized, eqs, numVars, fileVars, emitVars>>

NextSanitize == Sanitize \/ SanitizeAgain

SpecSanitize == InitSanitize /\ [][NextSanitize]_vars
SpecIdem == InitIdem /\ [][NextSanitize]_vars

(***************************************************************************)
(* normalize_equation_body and strip_trailing_punctuation                  *)
(***************************************************************************)
DropLineEnd(line) ==
    IF line # <<>> /\ IsLineEnd(line[Len(line)])
    THEN SubSeq(line, 1, Len(line) - 1) ELSE line

\* str.splitlines()
SplitLines(s) ==
    LET ls == SplitLinesKeep(s) IN [k \in 1..Len(ls) |-> DropLineEnd(ls[k])]

IsBlankLine(ln) == Strip(ln) = <<>>

\* while lines and lines[0].strip() == '': lines.pop(0)
RECURSIVE PopLeadingBlank(_)
PopLeadingBlank(ls) ==
    IF ls # <<>> /\ IsBlankLine(ls[1]) THEN PopLeadingBlank(Tail(ls)) ELSE ls

\* while lines and lines[-1].strip() == '': lines.pop()
RECURSIVE PopTrailingBlank(_)
PopTrailingBlank(ls) ==
    IF ls # <<>> /\ IsBlankLine(ls[Len(ls)])
    THEN PopTrailingBlank(SubSeq(ls, 1, Len(ls) - 1)) ELSE ls

\* the loop that skips a blank line following a blank line
RECURSIVE CollapseBlank(_, _)
CollapseBlank(ls, prev_blank) ==
    IF ls = <<>> THEN <<>>
    ELSE LET is_blank == IsBlankLine(ls[1])
         IN  IF is_blank /\ prev_blank THEN CollapseBlank(Tail(ls), prev_blank)
             ELSE <<ls[1]>> \o CollapseBlank(Tail(ls), is_blank)

\* '\n'.join(out)
RECURSIVE JoinNL(_)
JoinNL(ls) ==
    IF ls = <<>> THEN <<>>
    ELSE IF Len(ls) = 1 THEN ls[1]
    ELSE ls[1] \o <<NL>> \o JoinNL(Tail(ls))

NormalizeEquationBody(s) ==
    JoinNL(CollapseBlank(PopTrailingBlank(PopLeadingBlank(SplitLines(s))), FALSE))

IsPunct(c) == c \in {".", ",", ";", ":"}
IsLabelTok(c) == \E n \in LabelNames : c = LabelTok(n)
IsTagTok(c) == \E tt \in TagTexts : c = TagTok(tt)
AllSpace(s) == \A k \in 1..Len(s) : IsSpace(s[k])

\* (\s*\\label\{[^\}]*\})?\s*$ matches the whole of tail
PunctTailOk(tail) ==
    \/ AllSpace(tail)
    \/ \E k \in 1..Len(tail) :
           /\ IsLabelTok(tail[k])
           /\ AllSpace(SubSeq(tail, 1, k - 1))
           /\ AllSpace(SubSeq(tail, k + 1, Len(tail)))

\* re.sub(r'[.,;:](\s*\\label\{[^\}]*\})?\s*$', '', equation.strip())
StripTrailingPunctuation(equation) ==
    LET s == Strip(equation)
        hits == {p \in 1..Len(s) :
                    IsPunct(s[p]) /\ PunctTailOk(SubSeq(s, p + 1, Len(s)))}
    IN  IF hits = {} THEN s
        ELSE SubSeq(s, 1, (CHOOSE p \in hits : \A q \in hits : p <= q) - 1)

\* re.sub of the \label{...} and then of the \tag{...} occurrences
NotLabelTok(c) == ~IsLabelTok(c)
NotTagTok(c) == ~IsTagTok(c)
RemoveLabels(s) == SelectSeq(s, NotLabelTok)
RemoveTags(s) == SelectSeq(s, NotTagTok)

CleanBody(raw_body) ==
    LET body_no_labels == RemoveLabels(raw_body)
        body_no_labels_tags == RemoveTags(body_no_labels)
    IN  StripTrailingPunctuation(NormalizeEquationBody(body_no_labels_tags))

(***************************************************************************)
(* find_equations                                                          *)
(***************************************************************************)
\* env.endswith('*') and env.rstrip('*'), over the names of the model
EndsWithStar(env) == \E b \in EnvBases \cup {"brackets"} : env = b \o "*"
RStripStar(env) ==
    IF EndsWithStar(env)
    THEN CHOOSE b \in EnvBases \cup {"brackets"} : env = b \o "*" ELSE env

\* a variant of the closing pattern that accepts the \end of any environment
IsEndOfAny(tok, env) == \E e \in EQ_ENVS : tok = EndTok(e)

\* \\end\{\1\}: the closing token of the environment the opening one named
IsEndOf(tok, env) == tok = EndTok(env)

\* the first alternative of the pattern at position i: <<env, i, j>> with j
\* the position of the nearest closing token, or <<>>
NamedAt(t, i) ==
    LET es == {e \in EQ_ENVS : t[i] = BeginTok(e)}
    IN  IF es = {} THEN <<>>
        ELSE LET e == CHOOSE x \in es : TRUE
                 closes == {j \in (i + 1)..Len(t) : IsEndOf(t[j], e)}
             IN  IF closes = {} THEN <<>>
                 ELSE <<e, i, CHOOSE j \in closes : \A k \in closes : j <= k>>

\* the second alternative: \[ ... \]
BracketAt(t, i) ==
    IF t[i] # OPEN_BRACKET THEN <<>>
    ELSE LET closes == {j \in (i + 1)..Len(t) : t[j] = CLOSE_BRACKET}
         IN  IF closes = {} THEN <<>>
             ELSE <<"brackets", i, CHOOSE j \in closes : \A k \in closes : j <= k>>

MatchAt(t, i) == IF NamedAt(t, i) # <<>> THEN NamedAt(t, i) ELSE BracketAt(t, i)

\* pattern.finditer: the first match starting at or after position from
NextMatch(t, from) ==
    LET starts == {i \in from..Len(t) : MatchAt(t, i) # <<>>}
    IN  IF starts = {} THEN <<>>
        ELSE MatchAt(t, CHOOSE i \in starts : \A k \in starts : i <= k)

\* the ascending sequence of a finite set of numbers
RECURSIVE Ascending(_)
Ascending(S) ==
    IF S = {} THEN <<>>
    ELSE LET m == CHOOSE x \in S : \A y \in S : x <= y
         IN  <<m>> \o Ascending(S \ {m})

\* m.start() of every \chapter command, in order
ChapterPositions(t) == Ascending({i - 1 : i \in {k \in 1..Len(t) : t[k] = CHAPTER}})

\* a variant that also counts a chapter command standing at the start offset
RECURSIVE ChapterLoopInclusive(_, _, _, _)
ChapterLoopInclusive(positions, i, start, chap_idx) ==
    IF i > Len(positions) THEN chap_idx
    ELSE IF positions[i] <= start
    THEN ChapterLoopInclusive(positions, i + 1, start, Some(i))
    ELSE chap_idx

\* for i, pos in enumerate(chapter_positions, start=1): ... else: break
RECURSIVE ChapterLoop(_, _, _, _)
ChapterLoop(positions, i, start, chap_idx) ==
    IF i > Len(positions) THEN chap_idx
    ELSE IF positions[i] < start THEN ChapterLoop(positions, i + 1, start, Some(i))
    ELSE chap_idx

\* a variant that locates the body by searching the text for it
BodyStartBySearch(t, i, j) ==
    LET raw == SubSeq(t, i + 1, j - 1)
    IN  CHOOSE s \in 0..i :
            /\ Slice(t, s, s + Len(raw)) = raw
            /\ \A r \in 0..(s - 1) : Slice(t, r, r + Len(raw)) # raw

\* m.start("body") and m.end("body") of a match opening at position i and
\* closing at position j
BodyStart(t, i, j) == i
BodyEnd(t, i, j) == j - 1

\* re.search of the tag pattern and of the label pattern in the raw body
FirstTag(s) ==
    LET hits == {k \in 1..Len(s) : IsTagTok(s[k])}
    IN  IF hits = {} THEN None
        ELSE Some(s[CHOOSE k \in hits : \A l \in hits : k <= l])

FirstLabel(s) ==
    LET hits == {k \in 1..Len(s) : IsLabelTok(s[k])}
    IN  IF hits = {} THEN None
        ELSE Some(s[CHOOSE k \in hits : \A l \in hits : k <= l])

LabelNameOf(tok) == CHOOSE n \in LabelNames : LabelTok(n) = tok
TagTextOf(tok) == CHOOSE tt \in TagTexts : TagTok(tt) = tok

\* the dict appended for one match
MakeRecord(t, m) ==
    LET raw_body == SubSeq(t, m[2] + 1, m[3] - 1)
        start == BodyStart(t, m[2], m[3])
        m_tag == FirstTag(raw_body)
        m_label == FirstLabel(raw_body)
    IN  [env |-> m[1],
         raw_body |-> raw_body,
         clean_body |-> CleanBody(raw_body),
         start |-> start,
         end |-> BodyEnd(t, m[2], m[3]),
         has_label |-> m_label # None,
         label_name |-> IF m_label = None THEN None ELSE Some(LabelNameOf(m_label[1])),
         has_tag |-> m_tag # None,
         tag_text |-> IF m_tag = None THEN None ELSE Some(TagTextOf(m_tag[1])),
         is_starred |-> EndsWithStar(m[1]),
         chapter_index |-> ChapterLoop(ChapterPositions(t), 1, start, None)]

\* a variant of the loop that keeps a record whose clean body is empty
RECURSIVE FindEquationsKeepEmpty(_, _)
FindEquationsKeepEmpty(t, from) ==
    LET m == NextMatch(t, from)
    IN  IF m = <<>> THEN <<>>
        ELSE <<MakeRecord(t, m)>> \o FindEquationsKeepEmpty(t, m[3] + 1)

\* the loop over pattern.finditer from position from on
RECURSIVE FindEquationsFrom(_, _)
FindEquationsFrom(t, from) ==
    LET m == NextMatch(t, from)
    IN  IF m = <<>> THEN <<>>
        ELSE LET r == MakeRecord(t, m)
             IN  (IF r.clean_body = <<>> THEN <<>> ELSE <<r>>)
                 \o FindEquationsFrom(t, m[3] + 1)

FindEquations(t) == FindEquationsFrom(t, 1)

(***************************************************************************)
(* The locator applied to an arbitrary sanitized text, and to one          *)
(* environment with an arbitrary interior.                                 *)
(***************************************************************************)
LocAlphabet ==
    {BeginTok("equation"), EndTok("equation"), BeginTok("equation*"),
     EndTok("equation*"), OPEN_BRACKET, CLOSE_BRACKET, LETTER}
OrderAlphabet ==
    {BeginTok("equation"), EndTok("equation"), OPEN_BRACKET, CLOSE_BRACKET, LETTER}
BodyAlphabet == {LETTER, SP, NL, DOT, LabelTok("a"), TagTok(<<"T">>)}

InitLocate ==
    /\ pc = "clean"
    /\ text \in TextsUpTo(LocAlphabet, MaxLocLen)
    /\ parts = <<>>
    /\ sanitized = <<>>
    /\ again = <<>>
    /\ eqs = <<>>
    /\ NoPipeline

InitOrder ==
    /\ pc = "clean"
    /\ text \in TextsUpTo(OrderAlphabet, MaxOrderLen)
    /\ parts = <<>>
    /\ sanitized = <<>>
    /\ again = <<>>
    /\ eqs = <<>>
    /\ NoPipeline

InitClean ==
    /\ pc = "clean"
    /\ \E body \in TextsUpTo(BodyAlphabet, MaxBodyLen) :
           text = <<BeginTok("equation")>> \o body \o <<EndTok("equation")>>
    /\ parts = <<>>
    /\ sanitized = <<>>
    /\ again = <<>>
    /\ eqs = <<>>
    /\ NoPipeline

\* equation_dicts = find_equations(tex_source_clean)
Locate ==
    /\ pc = "clean"
    /\ eqs' = FindEquations(text)
    /\ pc' = "located"
    /\ UNCHANGED <<text, sanVars, numVars, fileVars, emitVars>>

NextLocate == Locate

SpecLocate == InitLocate /\ [][NextLocate]_vars
SpecOrder == InitOrder /\ [][NextLocate]_vars
SpecClean == InitClean /\ [][NextLocate]_vars

(***************************************************************************)
(* Properties of the locator.                                              *)
(***************************************************************************)
\* C6: every record of a named environment lies between a \begin{X} and an
\* \end{X} of the same X, and a \begin{X} with no \end{X} after it (only
\* \end{Y} of other names) opens no record.
C6_SameEnvironment ==
    pc = "located" =>
        /\ \A k \in 1..Len(eqs) :
               eqs[k].env # "brackets" =>
                   /\ eqs[k].start >= 1
                   /\ eqs[k].end + 1 <= Len(text)
                   /\ text[eqs[k].start] = BeginTok(eqs[k].env)
                   /\ text[eqs[k].end + 1] = EndTok(eqs[k].env)
        /\ \A i \in 1..Len(text) : \A X \in EQ_ENVS :
               (/\ text[i] = BeginTok(X)
                /\ \A j \in (i + 1)..Len(text) : text[j] # EndTok(X))
                   => \A k \in 1..Len(eqs) :
                          ~(eqs[k].env # "brackets" /\ eqs[k].start = i)

\* \begin{equation*} a \end{equation} alone: no record
C6_Witness ==
    /\ pc = "located"
    /\ text = <<BeginTok("equation*"), LETTER, EndTok("equation")>>
    /\ eqs = <<>>

\* an interior made only of \label{...} and white space
OnlyLabelsAndBlanks(body) ==
    \A k \in 1..Len(body) : IsLabelTok(body[k]) \/ IsSpace(body[k])

\* C7: every record has a non-empty cleanBody, and an environment whose
\* interior is only labels and white space yields no record.
C7_NonEmptyCleanBody ==
    pc = "located" =>
        /\ \A k \in 1..Len(eqs) : eqs[k].clean_body # <<>>
        /\ OnlyLabelsAndBlanks(SubSeq(text, 2, Len(text) - 1)) => eqs = <<>>

\* \begin{equation}\label{a} \end{equation} is matched and dropped
C7_Witness ==
    /\ pc = "located"
    /\ text = <<BeginTok("equation"), LabelTok("a"), SP, EndTok("equation")>>
    /\ NextMatch(text, 1) # <<>>
    /\ eqs = <<>>

\* C8: the records come in strictly increasing source order, their offset
\* ranges do not overlap, each has start < end and text[start:end] equal to
\* its rawBody; so two occurrences of the same body are two records with two
\* different ranges.
C8_SourceOrder ==
    pc = "located" =>
        /\ \A k \in 1..Len(eqs) :
               /\ 0 <= eqs[k].start
               /\ eqs[k].start < eqs[k].end
               /\ eqs[k].end <= Len(text)
               /\ Slice(text, eqs[k].start, eqs[k].end) = eqs[k].raw_body
        /\ \A k \in 1..(Len(eqs) - 1) :
               /\ eqs[k].start < eqs[k + 1].start
               /\ eqs[k].end <= eqs[k + 1].start
        /\ \A k, l \in 1..Len(eqs) :
               k # l => <<eqs[k].start, eqs[k].end>> # <<eqs[l].start, eqs[l].end>>

\* two occurrences with the same body, located one after the other
C8_Witness ==
    /\ pc = "located"
    /\ Len(eqs) = 2
    /\ eqs[1].raw_body = eqs[2].raw_body
    /\ eqs[1].start < eqs[2].start


(***************************************************************************)
(* Properties of the sanitizer.                                            *)
(***************************************************************************)
\* the % at position q of line L has an even number (0 included) of
\* consecutive backslashes immediately before it
EvenBackslashesBefore(L, q) ==
    \E n \in 0..(q - 1) :
        /\ n % 2 = 0
        /\ \A i \in (q - n)..(q - 1) : L[i] = BS
        /\ (q - n - 1 >= 1 => L[q - n - 1] # BS)

CommentStarts(L) == {q \in 1..Len(L) : L[q] = PCT /\ EvenBackslashesBefore(L, q)}

FirstCommentStart(L) == CHOOSE q \in CommentStarts(L) : \A r \in CommentStarts(L) : q <= r

RECURSIVE JoinSrc(_)
JoinSrc(ps) == IF ps = <<>> THEN <<>> ELSE Head(ps).src \o JoinSrc(Tail(ps))

\* C9: the sanitizer is idempotent: a pass over its own output returns that
\* output unchanged, so every escaped % of the first pass's output is still
\* there after the second pass.
C9_Idempotent ==
    pc = "clean2" =>
        /\ again = sanitized
        /\ \A q \in 1..Len(sanitized) :
               (sanitized[q] = PCT /\ ~EvenBackslashesBefore(sanitized, q))
                   => (q <= Len(again) /\ again[q] = PCT)

\* C10: the output is the pieces of the input in order; a verbatim span is
\* output token for token; a line outside the spans with no % after an even
\* number of backslashes is output unchanged (an escaped % never starts a
\* comment); otherwise the first such % and all that follows it on the line
\* are gone and what stays is what stood before that %, up to trailing blanks
\* and the line terminator.
C10_CommentRule ==
    pc = "clean" =>
        /\ JoinSrc(parts) = text
        /\ JoinOut(parts) = sanitized
        /\ \A k \in 1..Len(parts) :
               LET L == parts[k].src
                   O == parts[k].out
               IN  IF parts[k].verb THEN O = L
                   ELSE IF CommentStarts(L) = {} THEN O = L
                   ELSE RStrip(O) = RStrip(SubSeq(L, 1, FirstCommentStart(L) - 1))

\* a line where an escaped % is kept and the unescaped % after it is cut
C10_Witness ==
    /\ pc = "clean"
    /\ \E k \in 1..Len(parts) :
           /\ ~parts[k].verb
           /\ Len(parts[k].src) >= 4
           /\ SubSeq(parts[k].src, 1, 3) = <<BS, PCT, PCT>>
           /\ parts[k].out = <<BS, PCT>>

(***************************************************************************)
(* The numbering reconciler.  A printed number ("1.2") and a tag text are  *)
(* texts of one character per token.                                       *)
(***************************************************************************)
AUTO_LABEL_PREFIX == "__ext_eq"

Digits == <<"0", "1", "2", "3", "4", "5", "6", "7", "8", "9">>

\* str(n) for n >= 0
RECURSIVE Decimal(_)
Decimal(n) ==
    IF n < 10 THEN <<Digits[n + 1]>>
    ELSE Decimal(n \div 10) \o <<Digits[(n % 10) + 1]>>

\* f"{AUTO_LABEL_PREFIX}{i}"
AutoLabel(i) == AUTO_LABEL_PREFIX \o ToString(i)

ShouldLabelForNumbering(env_name) ==
    IF EndsWithStar(env_name) THEN FALSE
    ELSE RStripStar(env_name) \in {"equation", "align", "gather", "multline"}

\* Python's truth of an optional number and of an optional text
TruthyNumber(opt) == opt # None /\ opt[1] # 0
TruthyText(opt) == opt # None /\ opt[1] # <<>>

\* has_chapters of build_minimal_numbering_doc
HasChapters(clean_src, es) ==
    \/ ChapterPositions(clean_src) # <<>>
    \/ \E k \in 1..Len(es) : TruthyNumber(es[k].chapter_index)

\* sorted(eqs, key=lambda e: e['start']): a stable insertion sort
RECURSIVE InsertByStart(_, _)
InsertByStart(sorted, e) ==
    IF sorted = <<>> THEN <<e>>
    ELSE IF sorted[Len(sorted)].start <= e.start THEN Append(sorted, e)
    ELSE Append(InsertByStart(SubSeq(sorted, 1, Len(sorted) - 1), e), sorted[Len(sorted)])

RECURSIVE SortedByStart(_)
SortedByStart(es) ==
    IF es = <<>> THEN <<>>
    ELSE InsertByStart(SortedByStart(SubSeq(es, 1, Len(es) - 1)), es[Len(es)])

StepCounter == [cmd |-> "stepcounter", label |-> ""]
Shell(lbl) == [cmd |-> "shell", label |-> lbl]

\* how many chapter positions, from index c on, lie before offset start:
\* the turns of the inner while loop
RECURSIVE StepsBefore(_, _, _)
StepsBefore(positions, c, start) ==
    IF c <= Len(positions) /\ positions[c] < start
    THEN 1 + StepsBefore(positions, c + 1, start) ELSE 0

\* the shell emitted for the i-th record, if any
ShellOf(e, i) ==
    IF ~e.is_starred /\ ShouldLabelForNumbering(e.env)
    THEN <<Shell(IF e.has_label THEN e.label_name[1] ELSE AutoLabel(i))>>
    ELSE <<>>

\* a variant without the trailing while loop
RECURSIVE BuildBodyNoTail(_, _, _, _, _)
BuildBodyNoTail(es, i, positions, c, has_chapters) ==
    IF i > Len(es) THEN <<>>
    ELSE LET n == IF has_chapters THEN StepsBefore(positions, c, es[i].start) ELSE 0
         IN  [k \in 1..n |-> StepCounter]
             \o ShellOf(es[i], i)
             \o BuildBodyNoTail(es, i + 1, positions, c + n, has_chapters)

\* the for loop over eqs_sorted from record i on, with c the index of
\* next_chap_pos, and the trailing while loop
RECURSIVE BuildBody(_, _, _, _, _)
BuildBody(es, i, positions, c, has_chapters) ==
    IF i > Len(es)
    THEN IF has_chapters /\ c <= Len(positions)
         THEN [k \in 1..(Len(positions) - c + 1) |-> StepCounter] ELSE <<>>
    ELSE LET n == IF has_chapters THEN StepsBefore(positions, c, es[i].start) ELSE 0
         IN  [k \in 1..n |-> StepCounter]
             \o ShellOf(es[i], i)
             \o BuildBody(es, i + 1, positions, c + n, has_chapters)

\* the document: whether the chapter counter is declared and equation
\* numbering wired to it, and the commands between \begin{document} and
\* \end{document}
BuildMinimalNumberingDoc(clean_src, es) ==
    LET has_chapters == HasChapters(clean_src, es)
    IN  [has_chapters |-> has_chapters,
         body |-> BuildBody(SortedByStart(es), 1, ChapterPositions(clean_src), 1,
                            has_chapters)]

(***************************************************************************)
(* The LaTeX engine on the synthetic document: \stepcounter{chapter} steps *)
(* the chapter counter and, under \numberwithin, resets the equation       *)
(* counter; an equation shell steps the equation counter and its \label    *)
(* writes \newlabel{label}{{printed}{page}} to the .aux file.              *)
(***************************************************************************)
RECURSIVE LatexAux(_, _, _, _, _)
LatexAux(body, k, chapter, equation, has_chapters) ==
    IF k > Len(body) THEN <<>>
    ELSE IF body[k].cmd = "stepcounter"
    THEN LatexAux(body, k + 1, chapter + 1, 0, has_chapters)
    ELSE LET printed == IF has_chapters
                        THEN Decimal(chapter) \o <<DOT>> \o Decimal(equation + 1)
                        ELSE Decimal(equation + 1)
         IN  <<[label |-> body[k].label, printed |-> printed]>>
             \o LatexAux(body, k + 1, chapter, equation + 1, has_chapters)

FullAux(temp_src) == LatexAux(temp_src.body, 1, 0, 0, temp_src.has_chapters)

\* what the engine may do: it cannot be launched, it is killed at the
\* timeout, it stops at a fatal error, or it ends normally; `written` is
\* None when it left temp_for_labels.aux as it was, else the number of
\* \newlabel lines it wrote to a fresh one
EngineOutcomes(temp_src) ==
    LET n == Len(FullAux(temp_src))
    IN  {[kind |-> "launch_error", written |-> None]}
        \cup {[kind |-> k, written |-> w] :
                  k \in {"timeout", "fatal"}, w \in {None} \cup {Some(j) : j \in 0..n}}
        \cup {[kind |-> "ok", written |-> Some(n)]}

\* the .aux file in the directory after the engine ran
AuxAfter(temp_src, before, o) ==
    IF o.written = None THEN before
    ELSE Some(SubSeq(FullAux(temp_src), 1, o.written[1]))

\* the loop over the lines of the .aux file: the label pattern needs a name
\* of at least one character, and a later line overwrites an earlier one
ParseAux(lines) ==
    LET named == {k \in 1..Len(lines) : lines[k].label # ""}
    IN  [l \in {lines[k].label : k \in named} |->
            lines[CHOOSE k \in named :
                      /\ lines[k].label = l
                      /\ \A j \in named : lines[j].label = l => j <= k].printed]

\* compile_temp_and_parse_aux with the debug directory: what it returns
\* (None or a mapping), given the engine's outcome
CompileTempAndParseAux(temp_src, before, o) ==
    IF o.kind = "timeout" THEN None
    ELSE IF AuxAfter(temp_src, before, o) = None THEN None
    ELSE Some(ParseAux(AuxAfter(temp_src, before, o)[1]))

\* the for loop of map_equations_to_display_names: the choice for record i
DisplayNameOf(e, i, label_map) ==
    IF e.has_tag THEN e.tag_text
    ELSE IF /\ ShouldLabelForNumbering(e.env)
            /\ e.has_label
            /\ e.label_name[1] \in DOMAIN label_map
    THEN Some(label_map[e.label_name[1]])
    ELSE IF AutoLabel(i) \in DOMAIN label_map THEN Some(label_map[AutoLabel(i)])
    ELSE None

MapEquationsToDisplayNames(es, label_map_opt) ==
    IF label_map_opt = None THEN [i \in 1..Len(es) |-> None]
    ELSE [i \in 1..Len(es) |-> DisplayNameOf(es[i], i, label_map_opt[1])]

\* re.match(r'^0\.(.+)$', printed)
MatchesZeroDot(printed) == Len(printed) >= 3 /\ printed[1] = "0" /\ printed[2] = DOT

\* a variant that drops a leading "0." whatever the record's chapter index
StripZeroDotAlways(printed, e) ==
    IF TruthyText(printed) /\ MatchesZeroDot(printed[1])
    THEN Some(SubSeq(printed[1], 3, Len(printed[1])))
    ELSE printed

\* _normalize_printed_name_for_prechapter as main defines it
NormalizePrintedNameForPrechapter(printed, e) ==
    IF TruthyText(printed) /\ e.chapter_index = None /\ MatchesZeroDot(printed[1])
    THEN Some(SubSeq(printed[1], 3, Len(printed[1])))
    ELSE printed

(***************************************************************************)
(* The run of main over one document, from the sanitized text to the       *)
(* printed names, and again over the same output directory.                *)
(***************************************************************************)
ChapterItem == [kind |-> "chapter", env |-> "", label |-> None, tag |-> None]
EnvItems ==
    [kind : {"env"},
     env : {"equation", "align*", "brackets"},
     label : {None} \cup {Some(n) : n \in LabelNames},
     tag : {None, Some(<<"0", ".", "5">>)}]
Items == {ChapterItem} \cup EnvItems

\* the tokens of one item: \chapter{T}, or an environment around a body a
\* with its \label and \tag
RenderItem(it) ==
    IF it.kind = "chapter" THEN <<CHAPTER>>
    ELSE <<IF it.env = "brackets" THEN OPEN_BRACKET ELSE BeginTok(it.env)>>
         \o <<LETTER>>
         \o (IF it.label = None THEN <<>> ELSE <<LabelTok(it.label[1])>>)
         \o (IF it.tag = None THEN <<>> ELSE <<TagTok(it.tag[1])>>)
         \o <<IF it.env = "brackets" THEN CLOSE_BRACKET ELSE EndTok(it.env)>>

RECURSIVE Render(_)
Render(d) == IF d = <<>> THEN <<>> ELSE RenderItem(Head(d)) \o Render(Tail(d))

Init ==
    /\ pc = "clean"
    /\ doc \in UNION {[1..k -> Items] : k \in 0..MaxItems}
    /\ text = Render(doc)
    /\ parts = <<>>
    /\ sanitized = <<>>
    /\ again = <<>>
    /\ eqs = <<>>
    /\ tempSrc = <<>>
    /\ auxFile = None
    /\ engine = <<>>
    /\ labelMap = None
    /\ displayNames = <<>>
    /\ names = <<>>
    /\ raised = "none"
    /\ NoFiles
    /\ NoEmit

\* display_names = map_equations_to_display_names(...) and the
\* post-processing of main, for one outcome of the engine; an engine that
\* cannot be launched makes subprocess.run raise, which nothing catches
ResolveNames ==
    /\ pc = "located"
    /\ LET temp_src == BuildMinimalNumberingDoc(text, eqs)
       IN  \E o \in EngineOutcomes(temp_src) :
               /\ tempSrc' = temp_src
               /\ engine' = o
               /\ auxFile' = AuxAfter(temp_src, auxFile, o)
               /\ IF o.kind = "launch_error"
                  THEN /\ raised' = "compile_temp_and_parse_aux"
                       /\ pc' = "raised"
                       /\ UNCHANGED <<labelMap, displayNames, names>>
                  ELSE LET label_map == CompileTempAndParseAux(temp_src, auxFile, o)
                           display_names == MapEquationsToDisplayNames(eqs, label_map)
                       IN  /\ labelMap' = label_map
                           /\ displayNames' = display_names
                           /\ names' = [k \in 1..Len(eqs) |->
                                  NormalizePrintedNameForPrechapter(display_names[k], eqs[k])]
                           /\ pc' = "named"
                           /\ UNCHANGED raised
    /\ UNCHANGED <<text, sanVars, eqs, doc, fileVars, emitVars>>

\* the script is started again on the same document and output directory
Rerun ==
    /\ pc \in {"named", "raised"}
    /\ pc' = "clean"
    /\ eqs' = <<>>
    /\ tempSrc' = <<>>
    /\ engine' = <<>>
    /\ labelMap' = None
    /\ displayNames' = <<>>
    /\ names' = <<>>
    /\ raised' = "none"
    /\ UNCHANGED <<text, sanVars, doc, auxFile, fileVars, emitVars>>

Next == Locate \/ ResolveNames \/ Rerun

Spec == Init /\ [][Next]_vars

(***************************************************************************)
(* Properties of the numbering reconciler.                                 *)
(***************************************************************************)
\* the reference numbering of the document as written: an unstarred,
\* untagged equation/align/gather/multline consumes one number, and the
\* counter restarts at every chapter command
ConsumesNumber(it) == it.kind = "env" /\ it.env \in NumberBases /\ it.tag = None

LastChapterBefore(d, j) ==
    LET cs == {i \in 1..(j - 1) : d[i].kind = "chapter"}
    IN  IF cs = {} THEN 0 ELSE CHOOSE i \in cs : \A c \in cs : c <= i

RefNumber(d, j) ==
    1 + Cardinality({i \in (LastChapterBefore(d, j) + 1)..(j - 1) : ConsumesNumber(d[i])})

\* the position in the document of its k-th environment
EnvItemIndex(d, k) ==
    CHOOSE j \in 1..Len(d) :
        /\ d[j].kind = "env"
        /\ Cardinality({i \in 1..j : d[i].kind = "env"}) = k

\* what follows the last "." of a printed number
EquationPart(printed) ==
    LET dots == {i \in 1..Len(printed) : printed[i] = DOT}
    IN  IF dots = {} THEN printed
        ELSE SubSeq(printed, (CHOOSE i \in dots : \A j \in dots : j <= i) + 1, Len(printed))

IsShell(c) == c.cmd = "shell"

\* C1: when the numbering compile succeeds, every unstarred, untagged,
\* number-bearing record is named by the number the document prints for it:
\* the equation part of its printedName is 1 + the number of number-consuming
\* equations before it since the last chapter command.
C1_ReferenceNumber ==
    (pc = "named" /\ engine.kind = "ok") =>
        \A k \in 1..Len(eqs) :
            (/\ ~eqs[k].is_starred
             /\ RStripStar(eqs[k].env) \in NumberBases
             /\ ~eqs[k].has_tag)
                => /\ names[k] # None
                   /\ EquationPart(names[k][1])
                          = Decimal(RefNumber(doc, EnvItemIndex(doc, k)))

\* C2: a starred record is named by its \tag text or not at all, never from
\* the label map, and the synthetic document holds no shell for it: it holds
\* as many shells as there are unstarred number-bearing records.
C2_StarredNeverNumbered ==
    pc = "named" =>
        /\ \A k \in 1..Len(eqs) :
               eqs[k].is_starred =>
                   \/ displayNames[k] = None
                   \/ eqs[k].has_tag /\ displayNames[k] = eqs[k].tag_text
        /\ Len(SelectSeq(tempSrc.body, IsShell))
               = Cardinality({k \in 1..Len(eqs) :
                     ~eqs[k].is_starred /\ RStripStar(eqs[k].env) \in NumberBases})

\* the value the priority rule of C3 names for record k under label map m
PriorityValue(e, k, m) ==
    LET eligible == ~e.is_starred /\ RStripStar(e.env) \in NumberBases
    IN  IF eligible /\ e.has_label /\ e.label_name[1] \in DOMAIN m
        THEN Some(m[e.label_name[1]])
        ELSE IF eligible /\ ~e.has_label /\ AutoLabel(k) \in DOMAIN m
        THEN Some(m[AutoLabel(k)])
        ELSE None

\* C3: when the compile yields a label map, a record with a \tag is named by
\* the tag text exactly as written; any other record by the map value of its
\* explicit label if it is eligible and the label is in the map, else by the
\* map value of the placeholder assigned to it if that is in the map, else
\* not at all (a map value may have lost its pre-chapter "0." on the way).
C3_Priority ==
    (pc = "named" /\ labelMap # None) =>
        \A k \in 1..Len(eqs) :
            IF eqs[k].has_tag THEN names[k] = eqs[k].tag_text
            ELSE LET v == PriorityValue(eqs[k], k, labelMap[1])
                 IN  names[k] \in {v, NormalizePrintedNameForPrechapter(v, eqs[k])}

\* C4: when this run's numbering compile timed out, ended with a fatal
\* error, or wrote no .aux file, every record is left without a printedName.
C4_FailureMeansUnnumbered ==
    (/\ pc = "named"
     /\ (engine.kind \in {"timeout", "fatal"} \/ engine.written = None))
        => \A k \in 1..Len(eqs) : names[k] = None

\* C5: no failure of an external process propagates as an exception out of
\* the function that started the process.
C5_NoExceptionEscapes == raised = "none"

(***************************************************************************)
(* The include graph.  A file is a sequence of lines; a line is a line of  *)
(* the file's own content, an \input/\include command, or such a command   *)
(* behind a %.  Paths are resolved already (resolve_include): Files are    *)
(* the paths at which a file exists, MISSING one at which none does.       *)
(***************************************************************************)
Files == {"A.tex", "B.tex"}
MISSING == "M.tex"

ContentLine(f) == [kind |-> "content", of |-> f, target |-> "", commented |-> FALSE]
IncludeLine(t, c) == [kind |-> "include", of |-> "", target |-> t, commented |-> c]
\* the % that stays in front of a replaced command
PercentLine == [kind |-> "percent", of |-> "", target |-> "", commented |-> FALSE]

LinesOf(f) ==
    {ContentLine(f)}
        \cup {IncludeLine(t, FALSE) : t \in Files \cup {MISSING}}
        \cup {IncludeLine(t, TRUE) : t \in Files}

\* strip_comments (COMMENT_RE) followed by INCLUDE_RE.findall: the targets
\* of the commands that are not behind a %
LiveIncludes(lines) ==
    {lines[k].target : k \in {j \in 1..Len(lines) :
                                  lines[j].kind = "include" /\ ~lines[j].commented}}

\* INCLUDE_RE applied to the text as it is: every command, commented or not
Kept(line) == <<line>>
Replaced(line, sub) == (IF line.commented THEN <<PercentLine>> ELSE <<>>) \o sub

\* tex2svg.expand_inputs: re.sub(INCLUDE_RE, repl, original_text) from line i
\* on; `visited` is shared by all the calls, so it is returned with the text
RECURSIVE ExpandInputsFrom(_, _, _, _)
ExpandInputsFrom(fs, original_text, i, visited) ==
    IF i > Len(original_text) THEN [out |-> <<>>, visited |-> visited]
    ELSE LET line == original_text[i]
         IN  IF line.kind # "include"
             THEN LET rest == ExpandInputsFrom(fs, original_text, i + 1, visited)
                  IN  [out |-> Kept(line) \o rest.out, visited |-> rest.visited]
             ELSE IF line.target \in visited
             THEN LET rest == ExpandInputsFrom(fs, original_text, i + 1, visited)
                  IN  [out |-> Replaced(line, <<>>) \o rest.out, visited |-> rest.visited]
             ELSE IF line.target \notin DOMAIN fs
             THEN LET rest == ExpandInputsFrom(fs, original_text, i + 1, visited)
                  IN  [out |-> Kept(line) \o rest.out, visited |-> rest.visited]
             ELSE LET sub == ExpandInputsFrom(fs, fs[line.target], 1,
                                              visited \cup {line.target})
                      rest == ExpandInputsFrom(fs, original_text, i + 1, sub.visited)
                  IN  [out |-> Replaced(line, sub.out) \o rest.out,
                       visited |-> rest.visited]

\* combined_src = expand_inputs(original_src, tex_path): visited starts empty
ExpandInputs(fs, tex_path) == ExpandInputsFrom(fs, fs[tex_path], 1, {})

\* find_included_files
FindIncludedFiles(fs, tex_files) == UNION {LiveIncludes(fs[tf]) : tf \in tex_files}

\* the loop over tex_files of main: the files it does not skip
RootsOf(tex_files, included_by_others) ==
    {tf \in tex_files : tf \notin included_by_others}

(***************************************************************************)
(* CombineTex.combine_tex_files                                            *)
(***************************************************************************)
RECURSIVE CombineExpand(_, _, _)
RECURSIVE CombineReplace(_, _, _, _)
\* re.sub(INCLUDE_RE, repl, original) from line i on
CombineReplace(fs, original, i, visited) ==
    IF i > Len(original) THEN [out |-> <<>>, visited |-> visited]
    ELSE LET line == original[i]
         IN  IF line.kind # "include" \/ line.target \notin DOMAIN fs
             THEN LET rest == CombineReplace(fs, original, i + 1, visited)
                  IN  [out |-> Kept(line) \o rest.out, visited |-> rest.visited]
             ELSE LET sub == CombineExpand(fs, line.target, visited)
                      rest == CombineReplace(fs, original, i + 1, sub.visited)
                  IN  [out |-> Replaced(line, sub.out) \o rest.out,
                       visited |-> rest.visited]

\* expand(tex_path)
CombineExpand(fs, tex_path, visited) ==
    IF tex_path \in visited THEN [out |-> <<>>, visited |-> visited]
    ELSE CombineReplace(fs, fs[tex_path], 1, visited \cup {tex_path})

\* a variant that starts with the text of the main file, as expand_inputs does
CombineTexFilesFromText(fs, main_file) == CombineReplace(fs, fs[main_file], 1, {})

\* combined_tex_content = expand(main_file), with visited = set()
CombineTexFiles(fs, main_file) == CombineExpand(fs, main_file, {})

(***************************************************************************)
(* The runs over a directory of files.                                     *)
(***************************************************************************)
InitFiles ==
    /\ pc = "files"
    /\ \E a \in TextsUpTo(LinesOf("A.tex"), MaxFileLen),
          b \in TextsUpTo(LinesOf("B.tex"), MaxFileLen) :
           files = [f \in Files |-> IF f = "A.tex" THEN a ELSE b]
    /\ batch = {}
    /\ included = {}
    /\ roots = {}
    /\ combined = <<>>
    /\ text = <<>>
    /\ parts = <<>>
    /\ sanitized = <<>>
    /\ again = <<>>
    /\ eqs = <<>>
    /\ doc = <<>>
    /\ tempSrc = <<>>
    /\ auxFile = None
    /\ engine = <<>>
    /\ labelMap = None
    /\ displayNames = <<>>
    /\ names = <<>>
    /\ raised = "none"
    /\ NoEmit

\* main up to the loop over the root files, for the files named on the
\* command line or found by glob
FindRoots ==
    /\ pc = "files"
    /\ \E tex_files \in SUBSET Files \ {{}} :
           /\ batch' = tex_files
           /\ included' = FindIncludedFiles(files, tex_files)
           /\ roots' = RootsOf(tex_files, FindIncludedFiles(files, tex_files))
    /\ pc' = "roots"
    /\ UNCHANGED <<text, sanVars, eqs, numVars, files, combined, emitVars>>

\* one turn of the loop of tex2svg's main, up to combined_src
ExpandRoot ==
    /\ pc = "roots"
    /\ \E tex_path \in roots :
           combined' = [by |-> "expand_inputs", root |-> tex_path,
                        out |-> ExpandInputs(files, tex_path).out,
                        visited |-> ExpandInputs(files, tex_path).visited]
    /\ pc' = "combined"
    /\ UNCHANGED <<text, sanVars, eqs, numVars, files, batch, included, roots, emitVars>>

\* CombineTex's main: find_main_tex_file picks one of the candidates that no
\* file includes, combine_tex_files flattens it
CombineMain ==
    /\ pc = "roots"
    /\ \E main_file \in roots :
           combined' = [by |-> "combine_tex_files", root |-> main_file,
                        out |-> CombineTexFiles(files, main_file).out,
                        visited |-> CombineTexFiles(files, main_file).visited]
    /\ pc' = "combined"
    /\ UNCHANGED <<text, sanVars, eqs, numVars, files, batch, included, roots, emitVars>>

NextFiles == FindRoots \/ ExpandRoot \/ CombineMain

SpecFiles == InitFiles /\ [][NextFiles]_vars


(***************************************************************************)
(* collect_definitions.  A macro name is a sequence of letters and @       *)
(* (MACRO_RE); a preamble line holds one or two commands of one kind, each *)
(* with a name in braces.                                                  *)
(***************************************************************************)
NameChars == {"a", "@"}
MacroNames == UNION {[1..k -> NameChars] : k \in 1..2}

\* the commands DEFINE_PATTERNS name
DEFINE_PATTERNS == {"\\newcommand", "\\renewcommand", "\\providecommand",
                    "\\DeclareMathOperator"}

\* the lines of a preamble: \cmd{\name}... or \cmd*{\name}..., and lines
\* that hold a second such command, for the macro `also`
PreambleLines ==
    [cmd : {"\\newcommand", "\\DeclareMathOperator", "\\def"},
     star : BOOLEAN,
     name : MacroNames,
     also : {None, Some(<<"a">>)}]

\* the names a line defines, in the order they stand on it
NamesOn(line) == <<line.name>> \o line.also

\* \w of the regular expressions: a letter is a word character, @ and the
\* closing brace are not
IsWordChar(c) == c \notin {"@", "}"}

\* the character of the line that follows the first n characters of a name
CharAfter(name, n) == IF n < Len(name) THEN name[n + 1] ELSE "}"

\* re.search(pat % re.escape(macro), line): the command, an optional star,
\* the brace, the backslash, the characters of macro, and then \b, a word
\* boundary between the last character of macro and what follows it
PatternMatches(macro, line) ==
    /\ line.cmd \in DEFINE_PATTERNS
    /\ \E d \in 1..Len(NamesOn(line)) :
           LET name == NamesOn(line)[d]
           IN  /\ Len(macro) <= Len(name)
               /\ SubSeq(name, 1, Len(macro)) = macro
               /\ IsWordChar(macro[Len(macro)]) # IsWordChar(CharAfter(name, Len(macro)))

\* how often the loop over needed appends one line: the break leaves the
\* loop over DEFINE_PATTERNS only, so once for every macro that matches
TimesKept(needed_macros, line) ==
    Cardinality({macro \in needed_macros : PatternMatches(macro, line)})

\* keeps, as the lines '\n'.join puts together
RECURSIVE CollectDefinitions(_, _)
CollectDefinitions(needed_macros, pre) ==
    IF pre = <<>> THEN <<>>
    ELSE [k \in 1..TimesKept(needed_macros, Head(pre)) |-> Head(pre)]
         \o CollectDefinitions(needed_macros, Tail(pre))

InitDefs ==
    /\ pc = "preamble"
    /\ preamble \in TextsUpTo(PreambleLines, MaxPreLines)
    /\ needed \in {S \in SUBSET MacroNames : Cardinality(S) <= 2}
    /\ relevant = <<>>
    /\ text = <<>>
    /\ parts = <<>>
    /\ sanitized = <<>>
    /\ again = <<>>
    /\ eqs = <<>>
    /\ doc = <<>>
    /\ tempSrc = <<>>
    /\ auxFile = None
    /\ engine = <<>>
    /\ labelMap = None
    /\ displayNames = <<>>
    /\ names = <<>>
    /\ raised = "none"
    /\ NoFiles
    /\ NoRun
    /\ NoCall

\* relevant_content = collect_definitions(needed_macros, preamble)
Collect ==
    /\ pc = "preamble"
    /\ relevant' = CollectDefinitions(needed, preamble)
    /\ pc' = "collected"
    /\ UNCHANGED <<text, sanVars, eqs, numVars, fileVars, preamble, needed, runVars, pureVars>>

NextDefs == Collect

SpecDefs == InitDefs /\ [][NextDefs]_vars

\* C15: collect_definitions returns a line of the preamble if and only if
\* the line holds a \newcommand, \renewcommand, \providecommand or
\* \DeclareMathOperator (starred or not) whose defined name is in needed.
C15_ExactlyNeededDefinitions ==
    pc = "collected" =>
        \A k \in 1..Len(preamble) :
            (\E j \in 1..Len(relevant) : relevant[j] = preamble[k])
                <=> (/\ preamble[k].cmd \in DEFINE_PATTERNS
                     /\ \E d \in 1..Len(NamesOn(preamble[k])) :
                            NamesOn(preamble[k])[d] \in needed)


(***************************************************************************)
(* _clean_tag_for_filename and make_filename_with_tag.  A display name is  *)
(* a sequence of characters.                                               *)
(***************************************************************************)
AlnumChars == {"0", "1", "2", "3", "4", "5", "6", "7", "8", "9", "a", "T"}
FileChars == {"1", "a", ".", "-", "_", SP, "(", ")", "+"}
UNNUMBERED == <<"unnumbered">>

\* [^\w\.\-]: what the last substitution replaces
IsReplaced(c) == c \notin AlnumChars \cup {"_", ".", "-"}

\* re.sub(r'\s+', '_', t)
RECURSIVE CollapseSpaces(_)
CollapseSpaces(t) ==
    IF t = <<>> THEN <<>>
    ELSE IF IsSpace(t[1]) THEN <<"_">> \o CollapseSpaces(LStrip(t))
    ELSE <<t[1]>> \o CollapseSpaces(Tail(t))

\* re.sub(r'[^\w\.\-]', '_', t)
ReplaceOthers(t) == [k \in 1..Len(t) |-> IF IsReplaced(t[k]) THEN "_" ELSE t[k]]

\* t = raw.strip(), then the enclosing parentheses are taken off
StripParens(raw) ==
    LET t == Strip(raw)
    IN  IF t # <<>> /\ t[1] = "(" /\ t[Len(t)] = ")"
        THEN Strip(SubSeq(t, 2, Len(t) - 1)) ELSE t

\* a variant that replaces every character that is not a letter or a digit
CleanTagAlnumOnly(raw) ==
    IF raw = None \/ raw[1] = <<>> THEN UNNUMBERED
    ELSE LET t == [k \in 1..Len(raw[1]) |->
                      IF raw[1][k] \in AlnumChars THEN raw[1][k] ELSE "_"]
         IN  IF t = <<>> THEN UNNUMBERED ELSE t

CleanTagForFilename(raw) ==
    IF raw = None \/ raw[1] = <<>> THEN UNNUMBERED
    ELSE LET t == ReplaceOthers(CollapseSpaces(StripParens(raw[1])))
         IN  IF t = <<>> THEN UNNUMBERED ELSE t

\* f"{idx:03d}"
ZeroPad(digits, width) ==
    [k \in 1..(width - Len(digits)) |-> "0"] \o digits

\* make_filename_with_tag with width = 3 and prefix = "Eq"; the stem is the
\* name without ".tex"
StemWithTag(i, display_name) ==
    "Eq_" \o Glue(ZeroPad(Decimal(i), 3)) \o "_("
          \o Glue(CleanTagForFilename(display_name)) \o ")"

MakeFilenameWithTag(i, display_name) == StemWithTag(i, display_name) \o ".tex"

IdxValues == {1, 12, 123, 1234}

InitName ==
    /\ pc = "call"
    /\ arg \in [idx : IdxValues,
                display_name : {None} \cup {Some(n) : n \in TextsUpTo(FileChars, MaxNameLen)}]
    /\ result = <<>>
    /\ text = <<>>
    /\ parts = <<>>
    /\ sanitized = <<>>
    /\ again = <<>>
    /\ eqs = <<>>
    /\ doc = <<>>
    /\ tempSrc = <<>>
    /\ auxFile = None
    /\ engine = <<>>
    /\ labelMap = None
    /\ displayNames = <<>>
    /\ names = <<>>
    /\ raised = "none"
    /\ NoFiles
    /\ NoDefs
    /\ NoRun

\* fname = make_filename_with_tag(idx, dname)
NameFile ==
    /\ pc = "call"
    /\ result' = MakeFilenameWithTag(arg.idx, arg.display_name)
    /\ pc' = "returned"
    /\ UNCHANGED <<text, sanVars, eqs, numVars, fileVars, defVars, runVars, arg>>

NextName == NameFile

SpecName == InitName /\ [][NextName]_vars


(***************************************************************************)
(* create_equation_file.  The file it writes: the two fixed lines, the     *)
(* macro definitions, and the body between the opening and the closing of  *)
(* the environment.                                                        *)
(***************************************************************************)
DOCUMENTCLASS == "\\documentclass[preview,varwidth]{standalone}"
USEPACKAGE == "\\usepackage{amsmath,amssymb,amsfonts,mathtools,amsthm}"
STAR_CAPABLE == {"equation", "align", "gather", "multline"}

\* a variant that keeps the base name
StarEnvUnstarred(base) == base

\* star_env = (base + '*') if base in STAR_CAPABLE else base
StarEnv(base) == IF base \in STAR_CAPABLE THEN base \o "*" ELSE base

CreateEquationFile(env, body, relevant_content) ==
    LET base == RStripStar(env)
        brackets == env = "brackets" \/ base = "displaymath"
    IN  [head |-> <<DOCUMENTCLASS, USEPACKAGE>>,
         relevant |-> relevant_content,
         begin |-> IF brackets THEN OPEN_BRACKET ELSE BeginTok(StarEnv(base)),
         body |-> RemoveTags(body),
         end |-> IF brackets THEN CLOSE_BRACKET ELSE EndTok(StarEnv(base))]

\* the clean bodies the locator can hand over
CleanBodies == {CleanBody(raw) : raw \in TextsUpTo(BodyAlphabet, MaxBodyLen)} \ {<<>>}

InitCreate ==
    /\ pc = "call"
    /\ arg \in [env : EQ_ENVS \cup {"brackets"},
                body : CleanBodies,
                relevant : TextsUpTo({[cmd |-> "\\newcommand", star |-> FALSE,
                                       name |-> <<"a">>]}, 1)]
    /\ result = <<>>
    /\ text = <<>>
    /\ parts = <<>>
    /\ sanitized = <<>>
    /\ again = <<>>
    /\ eqs = <<>>
    /\ doc = <<>>
    /\ tempSrc = <<>>
    /\ auxFile = None
    /\ engine = <<>>
    /\ labelMap = None
    /\ displayNames = <<>>
    /\ names = <<>>
    /\ raised = "none"
    /\ NoFiles
    /\ NoDefs
    /\ NoRun

\* create_equation_file((e["env"], e["clean_body"]), out_path, relevant_content)
CreateFile ==
    /\ pc = "call"
    /\ result' = CreateEquationFile(arg.env, arg.body, arg.relevant)
    /\ pc' = "returned"
    /\ UNCHANGED <<text, sanVars, eqs, numVars, fileVars, defVars, runVars, arg>>

NextCreate == CreateFile

SpecCreate == InitCreate /\ [][NextCreate]_vars

MacroTok(n) == "\\" \o Glue(n)

\* macros_in_equation, for bodies whose commands are macro tokens
MacrosInEquation(body) ==
    {n \in MacroNames : \E k \in 1..Len(body) : body[k] = MacroTok(n)}

\* needed_macros = set().union(*(macros_in_equation(e["clean_body"]) ...))
NeededMacros(es) == UNION {MacrosInEquation(es[k].clean_body) : k \in 1..Len(es)}

\* what the LaTeX engine may do when compile_equation starts it: it cannot
\* be launched, the watchdog kills it, it exits non-zero, or it exits with
\* status zero; `pdf` tells whether it left a .pdf file behind
CompileOutcomes ==
    {[kind |-> "launch_error", pdf |-> FALSE]}
        \cup [kind : {"timeout", "nonzero", "exit0"}, pdf : BOOLEAN]

PdfExists(on_disk, stem) == \E p \in on_disk : p.stem = stem

\* a variant that does not look for the .pdf first
CompileEquationAlways(stem, on_disk, o) ==
    [returned |-> IF o.kind = "exit0" /\ o.pdf THEN Some(stem) ELSE None,
     invoked |-> TRUE,
     pdfs |-> IF o.pdf THEN on_disk \cup {[stem |-> stem, by |-> o.kind]}
              ELSE on_disk]

\* compile_equation for an engine that can be launched: what it returns,
\* whether it started the engine, and the .pdf files afterwards
CompileEquation(stem, on_disk, o) ==
    IF PdfExists(on_disk, stem)
    THEN [returned |-> Some(stem), invoked |-> FALSE, pdfs |-> on_disk]
    ELSE [returned |-> IF o.kind = "timeout" THEN None
                       ELSE IF o.kind # "exit0" THEN None
                       ELSE IF ~o.pdf THEN None
                       ELSE Some(stem),
          invoked |-> TRUE,
          pdfs |-> IF o.pdf THEN on_disk \cup {[stem |-> stem, by |-> o.kind]}
                   ELSE on_disk]

\* the documents of the emit runs: environments whose body is one macro
EmitItems ==
    [kind : {"env"}, env : {"equation", "brackets"},
     body : {<<MacroTok(<<"a">>)>>, <<MacroTok(<<"a", "a">>)>>}]

RenderEmitItem(it) ==
    <<IF it.env = "brackets" THEN OPEN_BRACKET ELSE BeginTok(it.env)>>
        \o it.body
        \o <<IF it.env = "brackets" THEN CLOSE_BRACKET ELSE EndTok(it.env)>>

RECURSIVE RenderEmit(_)
RenderEmit(d) ==
    IF d = <<>> THEN <<>> ELSE RenderEmitItem(Head(d)) \o RenderEmit(Tail(d))

\* the preamble lines of the emit runs
EmitPreambleLines ==
    {[cmd |-> "\\newcommand", star |-> FALSE, name |-> n, also |-> None] :
         n \in {<<"a">>, <<"a", "a">>}}

\* the state at the start of a run, for the documents of D
RunStart(D, P) ==
    /\ pc = "clean"
    /\ doc \in D
    /\ text = RenderEmit(doc)
    /\ preamble \in P
    /\ parts = <<>>
    /\ sanitized = <<>>
    /\ again = <<>>
    /\ eqs = <<>>
    /\ tempSrc = <<>>
    /\ auxFile = None
    /\ engine = <<>>
    /\ labelMap = None
    /\ displayNames = <<>>
    /\ names = <<>>
    /\ raised = "none"
    /\ needed = {}
    /\ relevant = <<>>
    /\ NoFiles
    /\ NoRun
    /\ NoCall

InitEmit == RunStart(TextsUpTo(EmitItems, MaxEmitItems),
                     TextsUpTo(EmitPreambleLines, MaxPreLines))

\* a directory is processed again and again: one-environment documents
InitRuns == RunStart({<<it>> : it \in {i \in EmitItems : i.body = <<MacroTok(<<"a">>)>>}},
                     {<<>>})

\* needed_macros and relevant_content, computed once for the document
PrepareEmit ==
    /\ pc = "named"
    /\ needed' = NeededMacros(eqs)
    /\ relevant' = CollectDefinitions(NeededMacros(eqs), preamble)
    /\ idx' = 1
    /\ pc' = "emit"
    /\ UNCHANGED <<text, sanVars, eqs, numVars, fileVars, preamble,
                   emitted, pdfs, svgs, calls, results, handed, pureVars,
                   watchVars>>

\* one turn of the emit loop: make_filename_with_tag, create_equation_file,
\* compile_equation; an engine that cannot be launched makes Popen raise
EmitOne ==
    /\ pc = "emit"
    /\ idx <= Len(eqs)
    /\ LET stem == StemWithTag(idx, names[idx])
           file == CreateEquationFile(eqs[idx].env, eqs[idx].clean_body, relevant)
           existed == PdfExists(pdfs, stem)
       IN  /\ emitted' = Append(emitted, [fname |-> stem \o ".tex", content |-> file])
           /\ \E o \in CompileOutcomes :
                  IF o.kind = "launch_error" /\ ~existed
                  THEN /\ raised' = "compile_equation"
                       /\ pc' = "raised"
                       /\ UNCHANGED <<idx, pdfs, calls, results>>
                  ELSE LET r == CompileEquation(stem, pdfs, o)
                       IN  /\ results' = Append(results,
                                  [stem |-> stem, existed |-> existed,
                                   returned |-> r.returned])
                           /\ calls' = IF r.invoked THEN Append(calls, stem)
                                       ELSE calls
                           /\ pdfs' = r.pdfs
                           /\ idx' = idx + 1
                           /\ UNCHANGED <<pc, raised>>
    /\ UNCHANGED <<text, sanVars, eqs, doc, tempSrc, auxFile, engine, labelMap,
                   displayNames, names, fileVars, defVars, svgs, handed, pureVars,
                   watchVars>>

\* the .svg files after convert_pdf_to_svg ran for every .pdf of `found`:
\* a .pdf whose .svg exists is skipped; for the others Inkscape writes the
\* .svg and exits with zero, fails and leaves a file, or leaves none
SvgExists(on_disk, stem) == \E v \in on_disk : v.stem = stem

ConvertOutcomes == {"exit0", "nonzero", "none"}

\* the PDF-to-SVG step: nothing when find_inkscape finds no Inkscape, else
\* convert_pdf_to_svg for every .pdf that glob finds in the directory
ConvertAll ==
    /\ pc = "emit"
    /\ idx > Len(eqs)
    /\ \/ /\ handed' = {}
          /\ svgs' = svgs
       \/ LET todo == {p.stem : p \in {q \in pdfs : ~SvgExists(svgs, q.stem)}}
          IN  \E out \in [todo -> ConvertOutcomes] :
                  /\ handed' = {[stem |-> p.stem, by |-> p.by,
                                 skipped |-> SvgExists(svgs, p.stem)] : p \in pdfs}
                  /\ svgs' = svgs \cup {[stem |-> st, by |-> out[st]] :
                                           st \in {t \in todo : out[t] # "none"}}
    /\ pc' = "done"
    /\ UNCHANGED <<text, sanVars, eqs, numVars, fileVars, defVars,
                   idx, emitted, pdfs, calls, results, pureVars,
                   watchVars>>

\* the script is started again on the same document; the output directory
\* and the debug directory are as the earlier run left them
NextRun ==
    /\ pc \in {"done", "raised"}
    /\ pc' = "clean"
    /\ eqs' = <<>>
    /\ tempSrc' = <<>>
    /\ engine' = <<>>
    /\ labelMap' = None
    /\ displayNames' = <<>>
    /\ names' = <<>>
    /\ raised' = "none"
    /\ needed' = {}
    /\ relevant' = <<>>
    /\ idx' = 0
    /\ emitted' = <<>>
    /\ calls' = <<>>
    /\ results' = <<>>
    /\ handed' = {}
    /\ UNCHANGED <<text, sanVars, doc, auxFile, fileVars, preamble, pdfs, svgs, pureVars,
                   watchVars>>

NextEmit == Locate \/ ResolveNames \/ PrepareEmit \/ EmitOne \/ ConvertAll

NextRuns == Locate \/ ResolveNames \/ PrepareEmit \/ EmitOne \/ ConvertAll \/ NextRun

SpecEmit == InitEmit /\ [][NextEmit]_vars
SpecRuns == InitRuns /\ [][NextRuns]_vars


(***************************************************************************)
(* Properties of the emit loop.                                            *)
(***************************************************************************)
\* C16: the standalone source written for a record holds a macro definition
\* of the preamble only if the record's own clean body uses that macro.
C16_OnlyOwnMacros ==
    \A k \in 1..Len(emitted) :
        \A j \in 1..Len(emitted[k].content.relevant) :
            emitted[k].content.relevant[j].name \in MacrosInEquation(eqs[k].clean_body)

\* C19: when the .pdf of an equation is in the output directory at the time
\* compile_equation is called for it, the call returns the stem (success)
\* and the engine is not started for that stem in that run.
C19_CacheHitSkipsEngine ==
    \A k \in 1..Len(results) :
        results[k].existed =>
            /\ results[k].returned = Some(results[k].stem)
            /\ \A c \in 1..Len(calls) : calls[c] # results[k].stem

\* a later run finds the .pdf an earlier run compiled
C19_Witness ==
    /\ pc = "done"
    /\ Len(results) = 1
    /\ results[1].existed
    /\ results[1].returned = Some("Eq_001_(unnumbered)")
    /\ calls = <<>>

\* C20: a .pdf or .svg counts as a success or a cache hit only if the
\* process that wrote it exited with status zero: compile_equation returns
\* success only for such a .pdf, only such .pdf files are handed to the
\* PDF-to-SVG step, and a conversion is skipped only for such an .svg.
C20_OnlyCleanArtifactsAccepted ==
    /\ \A k \in 1..Len(results) :
           results[k].returned # None
               => [stem |-> results[k].stem, by |-> "exit0"] \in pdfs
    /\ \A h \in handed :
           /\ h.by = "exit0"
           /\ h.skipped => [stem |-> h.stem, by |-> "exit0"] \in svgs


(***************************************************************************)
(* Properties of the file names.                                           *)
(***************************************************************************)
\* the tag as C18 words it: every character that is not a letter or a digit
\* becomes an underscore
ClaimedTag(display_name) ==
    IF display_name = None THEN UNNUMBERED
    ELSE LET t == [k \in 1..Len(display_name[1]) |->
                      IF display_name[1][k] \in AlnumChars
                      THEN display_name[1][k] ELSE "_"]
         IN  IF t = <<>> THEN UNNUMBERED ELSE t

FileNameOf(i, tag) == "Eq_" \o Glue(ZeroPad(Decimal(i), 3)) \o "_(" \o Glue(tag) \o ").tex"

\* C18 as stated: the name is Eq_<3-digit index>_(<tag>).tex with every
\* non-alphanumeric character of printedName replaced by an underscore, and
\* unnumbered for no printedName or an empty tag.
C18_AsStated ==
    pc = "returned" =>
        result = FileNameOf(arg.idx, ClaimedTag(arg.display_name))

\* s without the blanks at its two ends
Trimmed(s) ==
    LET solid == {k \in 1..Len(s) : ~IsSpace(s[k])}
    IN  IF solid = {} THEN <<>>
        ELSE SubSeq(s, CHOOSE k \in solid : \A j \in solid : k <= j,
                       CHOOSE k \in solid : \A j \in solid : j <= k)

\* the characters of s at the positions of P, in order
RECURSIVE PickFrom(_, _, _)
PickFrom(s, k, P) ==
    IF k > Len(s) THEN <<>>
    ELSE (IF k \in P THEN <<s[k]>> ELSE <<>>) \o PickFrom(s, k + 1, P)

AmendedTag(display_name) ==
    IF display_name = None THEN UNNUMBERED
    ELSE LET t == Trimmed(display_name[1])
             inner == IF Len(t) >= 2 /\ t[1] = "(" /\ t[Len(t)] = ")"
                      THEN Trimmed(SubSeq(t, 2, Len(t) - 1)) ELSE t
             first == {k \in 1..Len(inner) :
                          ~(IsSpace(inner[k]) /\ k > 1 /\ IsSpace(inner[k - 1]))}
             picked == PickFrom(inner, 1, first)
             tag == [k \in 1..Len(picked) |->
                        IF picked[k] \in AlnumChars \cup {".", "-"}
                        THEN picked[k] ELSE "_"]
         IN  IF tag = <<>> THEN UNNUMBERED ELSE tag

\* C18 as amended: the name is Eq_<index, zero-padded to 3 digits>_(<tag>).tex
\* where <tag> is printedName without the blanks around it and without one
\* pair of parentheses around the whole, every run of blanks inside replaced
\* by one underscore and every other character that is not a letter, a
\* digit, ".", "-" or "_" replaced by an underscore; <tag> is unnumbered
\* when printedName is none or that tag is empty.
C18_FilenameRule ==
    pc = "returned" =>
        result = FileNameOf(arg.idx, AmendedTag(arg.display_name))

\* a chapter-scoped number keeps its dot
C18_Witness ==
    /\ pc = "returned"
    /\ arg.idx = 12
    /\ arg.display_name = Some(<<"1", ".", "1">>)
    /\ result = "Eq_012_(1.1).tex"


(***************************************************************************)
(* Properties of the include flattening and of the choice of roots.        *)
(***************************************************************************)
\* how many lines of file f's own content a text holds
CountOf(lines, f) == Cardinality({k \in 1..Len(lines) : lines[k] = ContentLine(f)})

\* the files reached from the files of S by commands not behind a %
RECURSIVE ReachedFrom(_, _)
ReachedFrom(fs, S) ==
    LET T == S \cup ((UNION {LiveIncludes(fs[f]) : f \in S}) \cap DOMAIN fs)
    IN  IF T = S THEN S ELSE ReachedFrom(fs, T)

\* C12: tex2svg.expand_inputs on a root file's text terminates, and its
\* output holds the content of every file, the root included, at most once.
C12_ContentAtMostOnce ==
    (pc = "combined" /\ combined.by = "expand_inputs") =>
        \A f \in Files : CountOf(combined.out, f) <= CountOf(files[f], f)

\* C13: combine_tex_files terminates and its output holds the content of
\* the main file and of every file reached from it exactly once, also of
\* the files on a cycle; no file's content is there twice, and no command
\* that names an existing file is left in it.
C13_InlinedExactlyOnce ==
    (pc = "combined" /\ combined.by = "combine_tex_files") =>
        /\ \A f \in Files : CountOf(combined.out, f) <= CountOf(files[f], f)
        /\ \A f \in ReachedFrom(files, {combined.root}) :
               CountOf(combined.out, f) = CountOf(files[f], f)
        /\ \A k \in 1..Len(combined.out) :
               combined.out[k].kind = "include" => combined.out[k].target \notin Files

\* a cycle through the main file: A includes B, B includes A
C13_Witness ==
    /\ pc = "combined"
    /\ combined.by = "combine_tex_files"
    /\ combined.root = "A.tex"
    /\ "B.tex" \in LiveIncludes(files["A.tex"])
    /\ "A.tex" \in LiveIncludes(files["B.tex"])
    /\ CountOf(files["A.tex"], "A.tex") = 1
    /\ CountOf(combined.out, "A.tex") = 1

\* C14: a candidate is skipped if and only if another candidate of the batch
\* holds an \input/\include that resolves to it.
C14_SkippedIffIncludedByOther ==
    pc = "roots" =>
        \A f \in batch :
            (f \notin roots) <=>
                (\E g \in batch \ {f} : f \in LiveIncludes(files[g]))


(***************************************************************************)
(* More properties of the sanitizer.                                       *)
(***************************************************************************)
\* the line terminator a line ends in, if any
LineTerminator(line) ==
    IF line # <<>> /\ IsLineEnd(line[Len(line)]) THEN <<line[Len(line)]>> ELSE <<>>

\* C11: when a comment is cut from a line, a line with only whitespace before
\* the comment is deleted with its terminator; any other line keeps what
\* preceded the comment (up to blanks at its end) followed by its own line
\* terminator, so that it is not joined with the line after it.
C11_LineKeepsTerminator ==
    pc = "clean" =>
        \A k \in 1..Len(parts) :
            (~parts[k].verb /\ CommentStarts(parts[k].src) # {}) =>
                LET src == parts[k].src
                    prefix == SubSeq(src, 1, FirstCommentStart(src) - 1)
                IN  IF Strip(prefix) = <<>> THEN parts[k].out = <<>>
                    ELSE parts[k].out \in {prefix \o LineTerminator(src),
                                           RStrip(prefix) \o LineTerminator(src)}


(***************************************************************************)
(* Properties of the synthetic numbering document.                         *)
(***************************************************************************)
\* the records build_minimal_numbering_doc emits a shell for
GetsShell(e) == ~e.is_starred /\ RStripStar(e.env) \in NumberBases

\* the shell of record k in the document: the shells stand in record order
ShellOfRecord(k) ==
    LET shells == SelectSeq(tempSrc.body, IsShell)
        rank == Cardinality({j \in 1..k : GetsShell(eqs[j])})
    IN  IF GetsShell(eqs[k]) /\ rank <= Len(shells) THEN <<shells[rank]>> ELSE <<>>

\* record k has no \label of its own and its shell carries __ext_eq<k>
HasPlaceholder(k) ==
    /\ ShellOfRecord(k) # <<>>
    /\ ~eqs[k].has_label
    /\ ShellOfRecord(k)[1].label = AutoLabel(k)

\* C22: a shell with a synthesized placeholder label is emitted only for a
\* record that is unstarred, number-bearing and carries neither an explicit
\* \label nor an explicit \tag; a record with a \tag never gets a placeholder.
C22_PlaceholderOnlyForBare ==
    pc = "named" =>
        \A k \in 1..Len(eqs) :
            HasPlaceholder(k) =>
                /\ ~eqs[k].is_starred
                /\ RStripStar(eqs[k].env) \in NumberBases
                /\ ~eqs[k].has_label
                /\ ~eqs[k].has_tag

\* the number the engine printed for the shell of record k, read from the
\* line that shell wrote to temp_for_labels.aux
OwnShellNumber(k) ==
    LET rank == Cardinality({j \in 1..k : GetsShell(eqs[j])})
    IN  auxFile[1][rank].printed

\* C28: when the numbering compile succeeds, every unstarred, number-bearing,
\* untagged record with an explicit \label is given the number of its own
\* shell, also when another record carries the same label name or has that
\* name as its placeholder.
C28_OwnShellNumber ==
    (pc = "named" /\ engine.kind = "ok") =>
        \A k \in 1..Len(eqs) :
            (GetsShell(eqs[k]) /\ eqs[k].has_label /\ ~eqs[k].has_tag) =>
                displayNames[k] = Some(OwnShellNumber(k))

\* a printed name of the form "0.<rest>"
HasZeroDotPrefix(printed) == Len(printed) >= 2 /\ printed[1] = "0" /\ printed[2] = DOT

\* the post-processing rule of C25 for record k: before the first chapter a
\* reconciled "0.<rest>" becomes "<rest>", from the first chapter on the
\* reconciled number stays as it is
PostProcessRule(k) ==
    /\ (/\ eqs[k].chapter_index = None
        /\ displayNames[k] # None
        /\ MatchesZeroDot(displayNames[k][1]))
           => names[k] = Some(SubSeq(displayNames[k][1], 3, Len(displayNames[k][1])))
    /\ (eqs[k].chapter_index # None /\ eqs[k].chapter_index[1] >= 1)
           => names[k] = displayNames[k]

\* the consequence C25 draws: the printedName is there, non-empty, without "0."
ProperName(k) ==
    /\ names[k] # None
    /\ names[k][1] # <<>>
    /\ ~HasZeroDotPrefix(names[k][1])

\* C25 as stated: the post-processing rule, and in a document with one
\* earlier \chapter every labelled equation has a non-empty printedName
\* without a "0." prefix.
C25_AsStated ==
    pc = "named" =>
        \A k \in 1..Len(eqs) :
            /\ PostProcessRule(k)
            /\ (/\ eqs[k].env = "equation"
                /\ eqs[k].has_label
                /\ eqs[k].chapter_index = Some(1))
                   => ProperName(k)

\* C25, amended: the post-processing rule, and when the numbering compile
\* succeeds, in a document with one earlier \chapter every untagged labelled
\* equation has a non-empty printedName without a "0." prefix.
C25_PrechapterRule ==
    pc = "named" =>
        \A k \in 1..Len(eqs) :
            /\ PostProcessRule(k)
            /\ (/\ engine.kind = "ok"
                /\ eqs[k].env = "equation"
                /\ eqs[k].has_label
                /\ ~eqs[k].has_tag
                /\ eqs[k].chapter_index = Some(1))
                   => ProperName(k)

\* \chapter{T} \begin{equation} a \label{a} \end{equation}, compiled: "1.1"
C25_Witness ==
    /\ pc = "named"
    /\ engine.kind = "ok"
    /\ Len(doc) = 2
    /\ doc[1].kind = "chapter"
    /\ Len(eqs) = 1
    /\ eqs[1].env = "equation"
    /\ eqs[1].has_label
    /\ ~eqs[1].has_tag
    /\ eqs[1].chapter_index = Some(1)
    /\ displayNames[1] = Some(<<"1", DOT, "1">>)
    /\ names[1] = Some(<<"1", DOT, "1">>)


(***************************************************************************)
(* More properties of the locator.                                         *)
(***************************************************************************)
\* C26: the cleanBody of every record, split into lines, has no blank first
\* line, no blank last line and no two blank lines in a row, whatever the raw
\* interior, also one whose trailing punctuation mark stands alone on its
\* last line.
C26_NoStrayBlankLines ==
    pc = "located" =>
        \A k \in 1..Len(eqs) :
            LET lines == SplitLines(eqs[k].clean_body)
            IN  /\ lines # <<>>
                /\ ~IsBlankLine(lines[1])
                /\ ~IsBlankLine(lines[Len(lines)])
                /\ \A j \in 1..(Len(lines) - 1) :
                       ~(IsBlankLine(lines[j]) /\ IsBlankLine(lines[j + 1]))


(***************************************************************************)
(* More properties of the include flattening.                              *)
(***************************************************************************)
\* C29: neither expand_inputs nor combine_tex_files expands a command that
\* stands behind a %: the flattened text holds no % left in front of an
\* inlined file, and holds content only of the files reached from the root
\* through commands that are not commented out.
C29_CommentedIncludeNotExpanded ==
    pc = "combined" =>
        /\ \A k \in 1..Len(combined.out) : combined.out[k] # PercentLine
        /\ \A f \in Files :
               CountOf(combined.out, f) > 0 => f \in ReachedFrom(files, {combined.root})


(***************************************************************************)
(* More properties of collect_definitions.                                 *)
(***************************************************************************)
\* how often a line occurs in a sequence of lines
Occurrences(lines, line) == Cardinality({k \in 1..Len(lines) : lines[k] = line})

\* s is t with some of its elements left out: the order is kept
RECURSIVE IsSubsequence(_, _)
IsSubsequence(s, t) ==
    IF s = <<>> THEN TRUE
    ELSE IF t = <<>> THEN FALSE
    ELSE IF Head(s) = Head(t) THEN IsSubsequence(Tail(s), Tail(t))
    ELSE IsSubsequence(s, Tail(t))

\* C30: every line occurs in the output of collect_definitions at most as
\* often as in the preamble, and the kept lines stand in preamble order; a
\* line that defines two needed macros is there once.
C30_NoLineTwice ==
    pc = "collected" =>
        /\ \A k \in 1..Len(preamble) :
               Occurrences(relevant, preamble[k]) <= Occurrences(preamble, preamble[k])
        /\ IsSubsequence(relevant, preamble)


(***************************************************************************)
(* Documents of chapters and environments: the locator and the numbering   *)
(* run over a text with several chapter commands, before, between, after   *)
(* and inside the environments.                                            *)
(***************************************************************************)
ChapItems ==
    {ChapterItem}
        \cup {[kind |-> "env", env |-> e, label |-> None, tag |-> None] :
                  e \in {"equation", "equation*", "brackets"}}
        \cup {[kind |-> "inside", env |-> "equation", label |-> None, tag |-> None]}

\* an item of kind "inside" is \begin{equation}\chapter{T} a \end{equation}
RenderChapItem(it) ==
    IF it.kind = "inside"
    THEN <<BeginTok(it.env), CHAPTER, LETTER, EndTok(it.env)>>
    ELSE RenderItem(it)

RECURSIVE RenderChap(_)
RenderChap(d) ==
    IF d = <<>> THEN <<>> ELSE RenderChapItem(Head(d)) \o RenderChap(Tail(d))

InitChapters ==
    /\ pc = "clean"
    /\ doc \in TextsUpTo(ChapItems, MaxChapItems)
    /\ text = RenderChap(doc)
    /\ parts = <<>>
    /\ sanitized = <<>>
    /\ again = <<>>
    /\ eqs = <<>>
    /\ tempSrc = <<>>
    /\ auxFile = None
    /\ engine = <<>>
    /\ labelMap = None
    /\ displayNames = <<>>
    /\ names = <<>>
    /\ raised = "none"
    /\ NoFiles
    /\ NoEmit

NextChapters == Locate \/ ResolveNames

SpecChapters == InitChapters /\ [][NextChapters]_vars

\* the offsets of the chapter commands of the text
ChapterOffsets == {i - 1 : i \in {j \in 1..Len(text) : text[j] = CHAPTER}}

\* chapterIndex as a number: 0 when it is none
ChapterNumber(e) == IF e.chapter_index = None THEN 0 ELSE e.chapter_index[1]

\* C24: the chapterIndex of a record is the number of chapter commands at an
\* offset strictly smaller than the record's start offset, none exactly when
\* that number is 0, and it never decreases along the records.
C24_ChapterIndex ==
    pc # "clean" =>
        /\ \A k \in 1..Len(eqs) :
               LET n == Cardinality({p \in ChapterOffsets : p < eqs[k].start})
               IN  eqs[k].chapter_index = IF n = 0 THEN None ELSE Some(n)
        /\ \A k \in 1..(Len(eqs) - 1) :
               ChapterNumber(eqs[k]) <= ChapterNumber(eqs[k + 1])

\* a record before the first chapter, one with a chapter command at its start
\* offset, and one after it
C24_Witness ==
    /\ pc = "located"
    /\ Len(eqs) = 3
    /\ eqs[2].start \in ChapterOffsets
    /\ eqs[1].chapter_index = None
    /\ eqs[2].chapter_index = None
    /\ eqs[3].chapter_index = Some(1)

\* the place in the synthetic document of its r-th shell, and the number of
\* markers before a place
ShellPlace(r) ==
    CHOOSE c \in 1..Len(tempSrc.body) :
        /\ IsShell(tempSrc.body[c])
        /\ Cardinality({d \in 1..c : IsShell(tempSrc.body[d])}) = r

MarkersBefore(c) == Cardinality({d \in 1..(c - 1) : tempSrc.body[d] = StepCounter})

\* C23: the synthetic document holds one \stepcounter{chapter} for every
\* chapter command of the text and one shell for every unstarred
\* number-bearing record, the shells in record order, and before the shell of
\* a record there are as many markers as the record's chapterIndex says.
C23_MarkersAndShells ==
    pc \in {"named", "raised"} =>
        LET body == tempSrc.body
            shellRecords == {k \in 1..Len(eqs) : GetsShell(eqs[k])}
        IN  /\ Cardinality({c \in 1..Len(body) : body[c] = StepCounter})
                   = Cardinality(ChapterOffsets)
            /\ Cardinality({c \in 1..Len(body) : IsShell(body[c])})
                   = Cardinality(shellRecords)
            /\ \A k \in shellRecords :
                   LET r == Cardinality({j \in shellRecords : j <= k})
                   IN  /\ body[ShellPlace(r)].label = AutoLabel(k)
                       /\ MarkersBefore(ShellPlace(r)) = ChapterNumber(eqs[k])

\* equation, \chapter, equation, \chapter: shell, marker, shell, and a
\* marker for the chapter command after the last record
C23_Witness ==
    /\ pc = "named"
    /\ Len(eqs) = 2
    /\ Len(tempSrc.body) = 4
    /\ IsShell(tempSrc.body[1])
    /\ tempSrc.body[2] = StepCounter
    /\ IsShell(tempSrc.body[3])
    /\ tempSrc.body[4] = StepCounter
    /\ eqs[1].chapter_index = None
    /\ eqs[2].chapter_index = Some(1)


(***************************************************************************)
(* compile_equation with its watchdog.  Two threads run: the caller and    *)
(* the thread of threading.Timer, which waits for TIMER_TIMEOUT and then   *)
(* calls on_timeout unless the timer was cancelled; the LaTeX process runs *)
(* beside them.  The length of the interval is not modelled: the timer may *)
(* expire at any moment after it is started.                               *)
(***************************************************************************)
WATCH_STEM == "Eq_001_(1)"

\* what the started process may do: never exit on its own, or exit with a
\* status, having written the .pdf or not
ChildKinds == [state : {"running"}, hangs : BOOLEAN, rc : {0, 1}, writes : BOOLEAN]

InitWatch ==
    /\ pc = "call"
    /\ arg = [stem |-> WATCH_STEM]
    /\ pdfs \in {{}, {[stem |-> WATCH_STEM, by |-> "exit0"]}}
    /\ result = <<>>
    /\ NoWatch
    /\ idx = 0
    /\ emitted = <<>>
    /\ svgs = {}
    /\ calls = <<>>
    /\ results = <<>>
    /\ handed = {}
    /\ text = <<>>
    /\ parts = <<>>
    /\ sanitized = <<>>
    /\ again = <<>>
    /\ eqs = <<>>
    /\ doc = <<>>
    /\ tempSrc = <<>>
    /\ auxFile = None
    /\ engine = <<>>
    /\ labelMap = None
    /\ displayNames = <<>>
    /\ names = <<>>
    /\ raised = "none"
    /\ NoFiles
    /\ NoDefs

\* what the steps of compile_equation leave alone
watchRest == <<text, sanVars, eqs, doc, tempSrc, auxFile, engine, labelMap,
               displayNames, names, fileVars, defVars, idx, emitted, svgs,
               calls, results, handed, arg>>

\* if os.path.isfile(pdf_file): return equation_basename; else the locals
\* process = None and timed_out = False and the Timer object
CheckPdf ==
    /\ pc = "call"
    /\ IF PdfExists(pdfs, arg.stem)
       THEN /\ result' = [returned |-> Some(arg.stem), why |-> "cached"]
            /\ pc' = "returned"
       ELSE /\ pc' = "start_timer"
            /\ UNCHANGED result
    /\ UNCHANGED <<watchRest, pdfs, watchVars, raised>>

\* timer.start()
StartTimer ==
    /\ pc = "start_timer"
    /\ timer' = "waiting"
    /\ pc' = "popen"
    /\ UNCHANGED <<watchRest, pdfs, process, child, timed_out, result, raised>>

\* subprocess.Popen(...) is called: the engine cannot be started and Popen
\* raises, or the process runs; `process` is not bound yet
Popen ==
    /\ pc = "popen"
    /\ \/ /\ pc' = "cancel_raise"
          /\ UNCHANGED child
       \/ /\ \E c \in ChildKinds : child' = c
          /\ pc' = "assign"
    /\ UNCHANGED <<watchRest, pdfs, timer, process, timed_out, result, raised>>

\* process = <the Popen object>
Assign ==
    /\ pc = "assign"
    /\ process' = Some("child")
    /\ pc' = "communicate"
    /\ UNCHANGED <<watchRest, pdfs, timer, child, timed_out, result, raised>>

\* out, err = process.communicate(): returns once the process has ended
Communicate ==
    /\ pc = "communicate"
    /\ child.state \in {"exited", "killed"}
    /\ pc' = "cancel"
    /\ UNCHANGED <<watchRest, pdfs, watchVars, result, raised>>

\* finally: timer.cancel(), which stops a timer that is still waiting and
\* does nothing to a callback that has begun; after Popen raised, the
\* exception goes on to the caller
Cancel ==
    /\ pc \in {"cancel", "cancel_raise"}
    /\ timer' = IF timer = "waiting" THEN "cancelled" ELSE timer
    /\ IF pc = "cancel_raise"
       THEN pc' = "raised" /\ raised' = "compile_equation"
       ELSE pc' = "check" /\ UNCHANGED raised
    /\ UNCHANGED <<watchRest, pdfs, process, child, timed_out, result>>

\* the returncode of the ended process: -9 after process.kill()
ReturnCode == IF child.state = "killed" THEN 0 - 9 ELSE child.rc

\* the three tests after the try statement and the final return
Check ==
    /\ pc = "check"
    /\ result' = IF timed_out THEN [returned |-> None, why |-> "timed_out"]
                 ELSE IF ReturnCode # 0 THEN [returned |-> None, why |-> "failed"]
                 ELSE IF ~PdfExists(pdfs, arg.stem)
                 THEN [returned |-> None, why |-> "no_pdf"]
                 ELSE [returned |-> Some(arg.stem), why |-> "compiled"]
    /\ pc' = "returned"
    /\ UNCHANGED <<watchRest, pdfs, watchVars, raised>>

\* the timer thread: the interval has passed and the timer is not cancelled,
\* so Timer.run calls on_timeout
TimerExpires ==
    /\ timer = "waiting"
    /\ timer' = "called"
    /\ UNCHANGED <<pc, watchRest, pdfs, process, child, timed_out, result, raised>>

\* on_timeout: timed_out = True
SetTimedOut ==
    /\ timer = "called"
    /\ timed_out' = TRUE
    /\ timer' = "set"
    /\ UNCHANGED <<pc, watchRest, pdfs, process, child, result, raised>>

\* on_timeout: if process is not None and process.poll() is None:
\* process.kill(); the killed engine may have left a .pdf behind
KillIfRunning ==
    /\ timer = "set"
    /\ timer' = "done"
    /\ IF process # None /\ child.state = "running"
       THEN /\ child' = [child EXCEPT !.state = "killed"]
            /\ \E left \in BOOLEAN :
                   pdfs' = IF left THEN pdfs \cup {[stem |-> arg.stem, by |-> "timeout"]}
                           ELSE pdfs
       ELSE UNCHANGED <<child, pdfs>>
    /\ UNCHANGED <<pc, watchRest, process, timed_out, result, raised>>

\* the LaTeX process ends by itself
ChildExits ==
    /\ child.state = "running"
    /\ ~child.hangs
    /\ child' = [child EXCEPT !.state = "exited"]
    /\ pdfs' = IF child.writes
               THEN pdfs \cup {[stem |-> arg.stem,
                                by |-> IF child.rc = 0 THEN "exit0" ELSE "nonzero"]}
               ELSE pdfs
    /\ UNCHANGED <<pc, watchRest, timer, process, timed_out, result, raised>>

NextWatch ==
    \/ CheckPdf \/ StartTimer \/ Popen \/ Assign \/ Communicate \/ Cancel \/ Check
    \/ TimerExpires \/ SetTimedOut \/ KillIfRunning
    \/ ChildExits

SpecWatch == InitWatch /\ [][NextWatch]_vars

\* every thread that can take a step takes one in the end: the caller, the
\* timer thread (a timer that is not cancelled expires), and a process that
\* ends by itself
FairWatch ==
    /\ WF_vars(CheckPdf) /\ WF_vars(StartTimer) /\ WF_vars(Popen) /\ WF_vars(Assign)
    /\ WF_vars(Communicate) /\ WF_vars(Cancel) /\ WF_vars(Check)
    /\ WF_vars(TimerExpires) /\ WF_vars(SetTimedOut) /\ WF_vars(KillIfRunning)
    /\ WF_vars(ChildExits)

SpecWatchFair == SpecWatch /\ FairWatch

(***************************************************************************)
(* Properties of the watchdog.                                             *)
(***************************************************************************)
\* C21: a started process that never exits on its own is in the end killed
\* by the watchdog, and compile_equation returns None; in no interleaving of
\* the two threads does the call stay blocked on the live process.
C21_HangIsKilled ==
    (child.state = "running" /\ child.hangs)
        ~> (pc = "returned" /\ child.state = "killed" /\ result.returned = None)

\* C27: compile_equation reports a timeout only when the watchdog killed the
\* process while it ran, and a process that exited with status 0 and wrote
\* its .pdf is reported as a success, wherever the timer callback ran.
C27_TimeoutOnlyIfKilled ==
    pc = "returned" =>
        /\ result.why = "timed_out" => child.state = "killed"
        /\ (/\ child.state = "exited"
            /\ child.rc = 0
            /\ child.writes)
               => result.returned = Some(arg.stem)

=============================================================================
